---- MODULE Spec2Model ----
(***************************************************************************)
(* Model of the Codex bridge script (codex_bridge.py): run_shell_command,  *)
(* which supervises a child process emitting NDJSON lines (a background    *)
(* reader thread, a queue, a foreground polling loop with a wall-clock     *)
(* timeout), and main, which folds the yielded lines into one result       *)
(* object.  The repository holds two copies of the script; the variable    *)
(* copy says which one a behaviour runs.                                   *)
(***************************************************************************)
EXTENDS Integers, Sequences, FiniteSets, TLC

VARIABLES
    copy,       \* which copy of codex_bridge.py runs: "my" or "skills"
    args,       \* parsed command line: [timeout]
    clock,      \* time.time() - start_time, in whole time units
    proc,       \* the child process: "running" or "exited"
    childOut,   \* the child's end of the output pipe: "open" or "closed"
    termBy,     \* who has called process.terminate(): subset of {"reader","supervisor"}
    killBy,     \* the places that have called process.kill()
    waited,     \* number of completed process.wait() calls
    rpc,        \* reader thread position
    readLog,    \* lines the reader thread has read from the pipe, in order
    queue,      \* output_queue: sequence of lines and the None end marker
    spc,        \* position of the generator/main coroutine pair
    timed_out,  \* run_shell_command's local flag
    joined,     \* outcome of thread.join(timeout=5): "no", "joined", "expired"
    delivered,  \* lines yielded by the generator to main's loop, in order
    res,        \* main's accumulators
    result,     \* the printed result object, or NoResult
    exit_status,    \* exit status of the bridge process, -1 while it runs
    enqueuedAtExit, \* history: number of lines the reader had enqueued when
                    \* the polling loop exited, -1 while it has not
    putLog,         \* history: every item the reader thread has put on the
                    \* queue, in order
    exe             \* the launcher's executable resolution: its platform,
                    \* the command name, the files present, and its outcome

vars == <<copy, args, clock, proc, childOut, termBy, killBy, waited, rpc,
          readLog, queue, spc, timed_out, joined, delivered, res, result,
          exit_status, enqueuedAtExit, putLog, exe>>

(***************************************************************************)
(* Bounds of the model.                                                    *)
(***************************************************************************)
MaxLines == 3
MaxFeed == 3
MaxMsgs == 2
MaxClock == 2

(***************************************************************************)
(* Values.  A JSON key that is missing (or null) reads as ABSENT; NUMBER   *)
(* is a JSON number where the script expects a string.  Texts are          *)
(* sequences of characters so that concatenation and slicing are computed. *)
(***************************************************************************)
ABSENT == "<absent>"
NUMBER == "<number 5>"
OBJECT == "<object>"
NONE == "<None>"
NoResult == [printed |-> FALSE, return_all_messages |-> FALSE, out |-> <<>>]

IsStr(v) == v \notin {NUMBER, OBJECT}

Get(v, default) == IF v = ABSENT THEN default ELSE v

(***************************************************************************)
(* Lines of the child's output.  A line is what json.loads makes of it:    *)
(* json = "invalid" (JSONDecodeError), "scalar" (valid JSON that is not an *)
(* object) or "object", with the keys the script reads.  raw names the     *)
(* line's text.  bad is the set of keys among item, text (of the item),    *)
(* error, error.message and message whose value has the wrong JSON type    *)
(* (not an object for item and error, not a string for the others).        *)
(***************************************************************************)
Obj(raw, type, thread_id, item_type, text, message, error_message) ==
    [raw |-> raw, json |-> "object", type |-> type, thread_id |-> thread_id,
     item_type |-> item_type, text |-> text, message |-> message,
     error_message |-> error_message, arguments |-> ABSENT,
     reasoning_text |-> ABSENT, bad |-> {}]

NonObj(raw, json) ==
    [raw |-> raw, json |-> json, type |-> ABSENT, thread_id |-> ABSENT,
     item_type |-> ABSENT, text |-> <<>>, message |-> ABSENT,
     error_message |-> ABSENT, arguments |-> ABSENT, reasoning_text |-> ABSENT,
     bad |-> {}]

ThreadStarted(T) == Obj("thread.started " \o T, "thread.started", T, ABSENT, <<>>, ABSENT, ABSENT)

AgentMessage(raw, text) == Obj(raw, "item.completed", ABSENT, "agent_message", text, ABSENT, ABSENT)

TurnCompleted == Obj("turn.completed", "turn.completed", ABSENT, ABSENT, <<>>, ABSENT, ABSENT)

TurnFailed == Obj("turn.failed boom", "turn.failed", ABSENT, ABSENT, <<>>, ABSENT, "boom")

ErrorEvent == Obj("error boom", "error", ABSENT, ABSENT, <<>>, "boom", ABSENT)

\* an event whose type contains both "fail" and "error"
FailedError ==
    Obj("turn.failed.error boom oops", "turn.failed.error", ABSENT, ABSENT, <<>>, "oops", "boom")

Reconnecting == Obj("error Reconnecting... 2/5", "error", ABSENT, ABSENT, <<>>, "Reconnecting... 2/5", ABSENT)

Reasoning == Obj("item.completed reasoning", "item.completed", ABSENT, "reasoning", <<>>, ABSENT, ABSENT)

\* The items that are only shown as progress.  arguments is the value of
\* item["arguments"] and reasoning_text that of item["text"] of a reasoning
\* item: a string, NUMBER or OBJECT (not a string), or ABSENT.
Item(raw, item_type) == Obj(raw, "item.completed", ABSENT, item_type, <<>>, ABSENT, ABSENT)

FunctionCall(raw, arguments) ==
    [Item(raw, "function_call") EXCEPT !.arguments = arguments]

ReasoningItem(raw, text) ==
    [Item(raw, "reasoning") EXCEPT !.reasoning_text = text]

FunctionCallOutput == Item("function_call_output", "function_call_output")

CommandExecution == Item("command_execution", "command_execution")

UnknownItem == Item("web_search", "web_search")

ItemLines ==
    {ThreadStarted("T1"), AgentMessage("agent_message a", <<"a">>),
     FunctionCall("function_call {}", "{}"),
     FunctionCall("function_call (arguments an object)", OBJECT),
     ReasoningItem("reasoning hm", "hm"),
     ReasoningItem("reasoning (text a number)", NUMBER),
     FunctionCallOutput, CommandExecution, UnknownItem}

\* an event other than thread.started that carries a thread id
TurnStarted == Obj("turn.started T1", "turn.started", "T1", ABSENT, <<>>, ABSENT, ABSENT)

ChildTimeout == Obj("timeout (from the child)", "timeout", ABSENT, ABSENT, <<>>, ABSENT, ABSENT)

NotJson == NonObj("not json", "invalid")

JsonNumber == NonObj("5", "scalar")

\* The event run_shell_command makes up itself when the deadline is exceeded.
TimeoutEvent == Obj("timeout (synthetic)", "timeout", ABSENT, ABSENT, <<>>, ABSENT, "exceeded")

ThreadIds == {"T1", "T2", ""}

Messages == {AgentMessage("agent_message a", <<"a">>),
             AgentMessage("agent_message b", <<"b">>),
             AgentMessage("agent_message (empty)", <<>>)}

Lines == {ThreadStarted(T) : T \in ThreadIds} \cup Messages \cup
         {TurnCompleted, TurnStarted, TurnFailed, ErrorEvent, Reconnecting,
          Reasoning, ChildTimeout, NotJson, JsonNumber}

\* The lines the child emits in the concurrent specification: one of each way
\* a line acts on the reader and on the loop (sentinel or not, decodable or
\* not, continue or break).
ChildLines == {ThreadStarted("T1"), AgentMessage("agent_message a", <<"a">>),
               TurnCompleted, NotJson, JsonNumber}

\* "fail" in top_type, "error" in top_type: substring tests, tabulated over
\* the type strings of the model.
ContainsFail(t) == t \in {"turn.failed", "turn.failed.error"}

ContainsError(t) == t \in {"error", "turn.failed.error"}

\* Mutant of IsReconnecting: the pattern never matches.
IsReconnectingNever(m) == FALSE

\* re.match(r'^Reconnecting\.\.\.\s+\d+/\d+$', error_msg)
IsReconnecting(m) == m \in {"Reconnecting... 2/5"}

\* is_turn_completed: json.loads(line), data.get("type") == "turn.completed",
\* False on any decode or attribute error.
is_turn_completed(line) ==
    IF line.json # "object" THEN FALSE ELSE line.type = "turn.completed"

(***************************************************************************)
(* main's accumulators and the body of its for loop.                       *)
(***************************************************************************)
PARTIAL_LIMIT == 200

Prefix(s, n) == SubSeq(s, 1, IF Len(s) < n THEN Len(s) ELSE n)

Piece(tag, arg) == [tag |-> tag, arg |-> arg]

InitRes ==
    [all_messages |-> <<>>, agent_messages |-> <<>>, success |-> TRUE,
     err_message |-> <<>>, thread_id |-> NONE, session_shown |-> FALSE,
     loop |-> "running", exc |-> FALSE]

\* An exception other than JSONDecodeError leaves the body where it is raised.
Raise(r) == [r EXCEPT !.exc = TRUE]

\* Mutant of HandleTimeout: success is left as it was.
HandleTimeoutKeepsSuccess(r, timeout) ==
    [r EXCEPT !.err_message =
                  <<Piece("[TIMEOUT] Execution exceeded", <<ToString(timeout)>>)>>
                  \o (IF r.agent_messages # <<>>
                      THEN <<Piece("Partial results", Prefix(r.agent_messages, PARTIAL_LIMIT))>>
                      ELSE <<>>),
              !.loop = "broken"]

\* if line_dict.get("type") == "timeout": ... break
HandleTimeout(r, timeout) ==
    [r EXCEPT !.success = FALSE,
              !.err_message =
                  <<Piece("[TIMEOUT] Execution exceeded", <<ToString(timeout)>>)>>
                  \o (IF r.agent_messages # <<>>
                      THEN <<Piece("Partial results", Prefix(r.agent_messages, PARTIAL_LIMIT))>>
                      ELSE <<>>),
              !.loop = "broken"]

\* Mutant of HandleItem: the new text is put in front.
HandleItemPrepends(r, d) ==
    IF r.exc THEN r
    ELSE IF Get(d.item_type, "") = "agent_message"
         THEN [r EXCEPT !.agent_messages = d.text \o @]
         ELSE r

\* Mutant of HandleItem: the new text replaces the old.
HandleItemOverwrites(r, d) ==
    IF r.exc THEN r
    ELSE IF Get(d.item_type, "") = "agent_message"
         THEN [r EXCEPT !.agent_messages = d.text]
         ELSE r

\* item = line_dict.get("item", {}); item_type = item.get("type", "");
\* if item_type == "agent_message": agent_messages = agent_messages + text.
\* item.get raises on an item that is not an object, and the concatenation
\* on a text that is not a string.
HandleItem(r, d) ==
    IF r.exc THEN r
    ELSE IF "item" \in d.bad THEN Raise(r)
    ELSE IF Get(d.item_type, "") = "agent_message"
         THEN IF "text" \in d.bad THEN Raise(r)
              ELSE [r EXCEPT !.agent_messages = @ \o d.text]
         ELSE r

\* The elif branches of the item type in the "my" copy, which format a
\* progress line: fmt_args calls json.loads on item["arguments"] and catches
\* JSONDecodeError and AttributeError only, and fmt_snippet calls split on
\* the text of a reasoning item.  The "skills" copy has none of this.
HandleProgress(c, r, d) ==
    IF r.exc \/ c # "my" THEN r
    ELSE LET t == Get(d.item_type, "")
         IN  IF t = "function_call" /\ ~IsStr(Get(d.arguments, "{}")) THEN Raise(r)
             ELSE IF t = "reasoning" /\ ~IsStr(Get(d.reasoning_text, "")) THEN Raise(r)
             ELSE r

\* if line_dict.get("thread_id") is not None: thread_id = ...; the "my" copy
\* then formats thread_id[:8] for the progress line, once.
HandleThreadId(c, r, d) ==
    IF r.exc \/ d.thread_id = ABSENT THEN r
    ELSE LET r1 == [r EXCEPT !.thread_id = d.thread_id]
         IN  IF c = "my" /\ ~r.session_shown
             THEN IF IsStr(d.thread_id)
                  THEN [r1 EXCEPT !.session_shown = TRUE]
                  ELSE Raise(r1)
             ELSE r1

\* Mutant of HandleFail: success follows the agent text in both directions.
HandleFailResets(r, d) ==
    IF r.exc THEN r
    ELSE [r EXCEPT !.success = Len(r.agent_messages) # 0,
                   !.err_message = Append(@, Piece("[codex error]",
                                                   <<Get(d.error_message, "")>>))]

\* the branch for "fail" in the type; line_dict.get("error", {}).get raises
\* on an error that is not an object, and the slice or the concatenation on
\* a message of it that is not a string
HandleFail(r, d) ==
    IF r.exc THEN r
    ELSE IF d.bad \cap {"error", "error.message"} # {}
    THEN Raise([r EXCEPT !.success = IF Len(r.agent_messages) = 0 THEN FALSE ELSE @])
    ELSE [r EXCEPT !.success = IF Len(r.agent_messages) = 0 THEN FALSE ELSE @,
                   !.err_message = Append(@, Piece("[codex error]",
                                                   <<Get(d.error_message, "")>>))]

\* Mutant of HandleError: success is cleared whatever the agent text.
HandleErrorAlwaysFails(r, d) ==
    IF r.exc \/ IsReconnecting(Get(d.message, "")) THEN r
    ELSE [r EXCEPT !.success = FALSE,
                   !.err_message = Append(@, Piece("[codex error]",
                                                   <<Get(d.message, "")>>))]

\* the branch for "error" in the type; re.match raises on a message that is
\* not a string
HandleError(r, d) ==
    IF r.exc THEN r
    ELSE IF "message" \in d.bad THEN Raise(r)
    ELSE IF IsReconnecting(Get(d.message, "")) THEN r
    ELSE [r EXCEPT !.success = IF Len(r.agent_messages) = 0 THEN FALSE ELSE @,
                   !.err_message = Append(@, Piece("[codex error]",
                                                   <<Get(d.message, "")>>))]

\* The dispatch on the top-level type: an if/elif chain in the "my" copy,
\* two independent ifs in the "skills" copy.
HandleType(c, r, d) ==
    LET t == Get(d.type, "")
    IN  IF c = "my"
        THEN IF t = "turn.completed" THEN r
             ELSE IF ContainsFail(t) THEN HandleFail(r, d)
             ELSE IF ContainsError(t) THEN HandleError(r, d)
             ELSE r
        ELSE LET r1 == IF ContainsFail(t) THEN HandleFail(r, d) ELSE r
             IN  IF ContainsError(t) THEN HandleError(r1, d) ELSE r1

\* Mutant of DecodeError: handled like any other exception (break).
DecodeErrorBreaks(r, line) ==
    [r EXCEPT !.err_message = Append(@, Piece("[json decode error]", <<line.raw>>)),
              !.loop = "broken"]

\* except json.JSONDecodeError: err_message += ...; continue
DecodeError(r, line) ==
    [r EXCEPT !.err_message = Append(@, Piece("[json decode error]", <<line.raw>>))]

\* Mutant of UnexpectedError: handled like a decode error (continue).
UnexpectedErrorContinues(r, line) ==
    [r EXCEPT !.err_message = Append(@, Piece("[unexpected error]", <<line.raw>>)),
              !.success = FALSE, !.exc = FALSE]

\* except Exception as error: err_message += ...; success = False; break
UnexpectedError(r, line) ==
    [r EXCEPT !.err_message = Append(@, Piece("[unexpected error]", <<line.raw>>)),
              !.success = FALSE, !.loop = "broken", !.exc = FALSE]

\* One iteration of "for line in run_shell_command(...)" in copy c.
Classify(c, r, line, timeout) ==
    IF line.json = "invalid" THEN DecodeError(r, line)
    ELSE LET r0 == [r EXCEPT !.all_messages = Append(@, line.raw)]
         IN  IF line.json # "object" THEN UnexpectedError(r0, line)
             ELSE IF Get(line.type, "") = "timeout" THEN HandleTimeout(r0, timeout)
             ELSE LET r1 == HandleProgress(c, HandleItem(r0, line), line)
                      r3 == HandleType(c, HandleThreadId(c, r1, line), line)
                  IN  IF r3.exc THEN UnexpectedError(r3, line) ELSE r3

\* Mutant of ClosingChecks: the session id check is missing.
ClosingChecksNoSessionCheck(r) ==
    IF Len(r.agent_messages) = 0 /\ r.success
    THEN [r EXCEPT !.success = FALSE,
                   !.err_message = <<Piece("Failed to get agent_messages", <<>>)>> \o @]
    ELSE r

\* Mutant of ClosingChecks: the agent text check is missing.
ClosingChecksNoTextCheck(r) ==
    IF r.thread_id = NONE /\ r.success
    THEN [r EXCEPT !.success = FALSE,
                   !.err_message = <<Piece("Failed to get SESSION_ID", <<>>)>> \o @]
    ELSE r

\* Mutant of ClosingChecks: each check writes its diagnostic whatever
\* success is.
ClosingChecksIndependent(r) ==
    LET r1 == IF r.thread_id = NONE
              THEN [r EXCEPT !.success = FALSE,
                             !.err_message = <<Piece("Failed to get SESSION_ID", <<>>)>> \o @]
              ELSE r
    IN  IF Len(r1.agent_messages) = 0
        THEN [r1 EXCEPT !.success = FALSE,
                        !.err_message = <<Piece("Failed to get agent_messages", <<>>)>> \o @]
        ELSE r1

\* Mutant of ClosingChecks: the checks clear success and write nothing.
ClosingChecksSilent(r) ==
    IF (r.thread_id = NONE \/ Len(r.agent_messages) = 0) /\ r.success
    THEN [r EXCEPT !.success = FALSE]
    ELSE r

\* The two checks after the loop.
ClosingChecks(r) ==
    LET r1 == IF r.thread_id = NONE /\ r.success
              THEN [r EXCEPT !.success = FALSE,
                             !.err_message = <<Piece("Failed to get SESSION_ID", <<>>)>> \o @]
              ELSE r
    IN  IF Len(r1.agent_messages) = 0 /\ r1.success
        THEN [r1 EXCEPT !.success = FALSE,
                        !.err_message = <<Piece("Failed to get agent_messages", <<>>)>> \o @]
        ELSE r1

\* if thread_id: (truthiness of the captured id)
Truthy(v) == v # NONE /\ v # ""

\* The result dict that main prints.
BuildResult(r, return_all_messages) ==
    LET base == IF r.success
                THEN [success |-> TRUE, SESSION_ID |-> r.thread_id,
                      agent_messages |-> r.agent_messages]
                ELSE IF Truthy(r.thread_id)
                     THEN [success |-> FALSE, error |-> r.err_message,
                           SESSION_ID |-> r.thread_id]
                     ELSE [success |-> FALSE, error |-> r.err_message]
    IN  IF return_all_messages
        THEN base @@ [all_messages |-> r.all_messages]
        ELSE base

(***************************************************************************)
(* Executable resolution (the copy under src/skills only).  A path is a    *)
(* record of its directory part, the stem of its last component and that   *)
(* component's suffix; the file system is the set of paths that are        *)
(* regular executable files.                                               *)
(***************************************************************************)
PathOf(dir, stem, ext) == [dir |-> dir, stem |-> stem, ext |-> ext]

\* the value of a name that did not resolve: Python's None
NoPath == PathOf("<None>", "", "")

\* os.name
OsNames == {"posix", "nt"}

\* os.sep and os.altsep; os.altsep is None on posix
Sep(os_name) == IF os_name = "nt" THEN "\\" ELSE "/"
AltSep(os_name) == IF os_name = "nt" THEN "/" ELSE NONE

\* the directory parts of the command names considered, and the separator
\* each one contains
NameDirs == {"", "bin/", "/opt/", "bin\\"}
SepIn(dir) ==
    CASE dir \in {"bin/", "/opt/"} -> {"/"}
      [] dir = "bin\\" -> {"\\"}
      [] OTHER -> {}

\* os.path.isabs(name)
IsAbs(os_name, name) == name.dir = "/opt/"

\* command names: cmd[0] and the other shapes the function accepts
Names ==
    { PathOf(d, "codex", e) : d \in NameDirs, e \in {"", ".cmd"} }

\* the directories of the search path (the PATH entry of env) and the
\* directories of _get_windows_npm_paths, which is empty off Windows
PathDirs == <<"P/">>
NpmDirs(os_name) == IF os_name = "nt" THEN <<"N/">> ELSE <<>>

\* the files that may exist
FileChoices ==
    { PathOf("P/", "codex", ""), PathOf("P/", "codex", ".cmd"),
      PathOf("P/", "codex", ".exe"), PathOf("N/", "codex", ".cmd"),
      PathOf("N/", "codex", ".bat") }

\* os.path.join(dir, name) and f"{name}{ext}"
Join(dir, name) == PathOf(dir \o name.dir, name.stem, name.ext)
WithExt(name, ext) == PathOf(name.dir, name.stem \o name.ext, ext)

\* the extensions in the order the function tries them, and PATHEXT in the
\* order shutil.which tries them
TRY_EXTS == <<".cmd", ".bat", ".exe", ".com">>
PATHEXT == <<".com", ".exe", ".bat", ".cmd">>
win_exts == {".exe", ".cmd", ".bat", ".com"}

\* the elements of a sequence
Range(s) == { s[i] : i \in 1..Len(s) }

\* the first path of a sequence that is a file, or NoPath
RECURSIVE FirstFile(_, _)
FirstFile(candidates, files) ==
    IF candidates = <<>> THEN NoPath
    ELSE IF Head(candidates) \in files THEN Head(candidates)
    ELSE FirstFile(Tail(candidates), files)

\* the paths of a sequence probed until the first file is found
RECURSIVE Probed(_, _)
Probed(candidates, files) ==
    IF candidates = <<>> THEN {}
    ELSE IF Head(candidates) \in files THEN {Head(candidates)}
    ELSE {Head(candidates)} \cup Probed(Tail(candidates), files)

\* the file names shutil.which tries in one directory: the name itself off
\* Windows and for a name that carries an extension of PATHEXT, otherwise
\* the name and then the name with each extension of PATHEXT
WhichNames(os_name, name) ==
    IF os_name # "nt" \/ name.ext \in Range(PATHEXT) THEN <<name>>
    ELSE <<name>> \o [i \in 1..Len(PATHEXT) |-> WithExt(name, PATHEXT[i])]

\* the paths shutil.which(name, path=path_val) tries, in order
RECURSIVE WhichCandidates(_, _, _)
WhichCandidates(os_name, name, dirs) ==
    IF dirs = <<>> THEN <<>>
    ELSE LET names == WhichNames(os_name, name)
         IN [i \in 1..Len(names) |-> Join(Head(dirs), names[i])]
            \o WhichCandidates(os_name, name, Tail(dirs))

\* the candidates dir/name+ext of the function's own loops
ExtCandidates(dir, name) ==
    [i \in 1..Len(TRY_EXTS) |-> Join(dir, WithExt(name, TRY_EXTS[i]))]

RECURSIVE NpmCandidates(_, _)
NpmCandidates(bases, name) ==
    IF bases = <<>> THEN <<>>
    ELSE ExtCandidates(Head(bases), name) \o NpmCandidates(Tail(bases), name)

\* the outcome of one call: what it returned or raised, and the paths it
\* looked up in the file system
Returned(path, probed) == [raised |-> "", path |-> path, probed |-> probed]
Raised(exc) == [raised |-> exc, path |-> NoPath, probed |-> {}]

\* the test of the first line with the guard on os.altsep left out
HasSeparatorUnguarded(os_name, name) ==
    IF IsAbs(os_name, name) \/ Sep(os_name) \in SepIn(name.dir) THEN "yes"
    ELSE IF AltSep(os_name) = NONE THEN "TypeError"
    ELSE IF AltSep(os_name) \in SepIn(name.dir) THEN "yes" ELSE "no"

\* os.path.isabs(name) or os.sep in name or (os.altsep and os.altsep in name)
HasSeparator(os_name, name) ==
    IF \/ IsAbs(os_name, name)
       \/ Sep(os_name) \in SepIn(name.dir)
       \/ (AltSep(os_name) # NONE /\ AltSep(os_name) \in SepIn(name.dir))
    THEN "yes" ELSE "no"

\* the function with the final return handing back None
ResolveOrNone(name, os_name, files) ==
    IF HasSeparator(os_name, name) = "yes" THEN Returned(name, {})
    ELSE LET tried == WhichCandidates(os_name, name, PathDirs)
             found == FirstFile(tried, files)
         IN IF found # NoPath THEN Returned(found, Probed(tried, files))
            ELSE Returned(NoPath, Probed(tried, files))

\* _resolve_executable(name, env)
_resolve_executable(name, os_name, files) ==
    LET sep == HasSeparator(os_name, name)
        tried == WhichCandidates(os_name, name, PathDirs)
        resolved == FirstFile(tried, files)
        looked == Probed(tried, files)
        beside == ExtCandidates(resolved.dir, name)
        npm == NpmCandidates(NpmDirs(os_name), name)
    IN IF sep \notin {"yes", "no"} THEN Raised(sep)
       ELSE IF sep = "yes" THEN Returned(name, {})
       ELSE IF resolved # NoPath
       THEN IF os_name = "nt" /\ resolved.ext = ""
                 /\ FirstFile(beside, files) # NoPath
            THEN Returned(FirstFile(beside, files),
                          looked \cup Probed(beside, files))
            ELSE IF os_name = "nt" /\ resolved.ext = ""
            THEN Returned(resolved, looked \cup Probed(beside, files))
            ELSE Returned(resolved, looked)
       ELSE IF FirstFile(npm, files) # NoPath
       THEN Returned(FirstFile(npm, files), looked \cup Probed(npm, files))
       ELSE Returned(name, looked \cup Probed(npm, files))

\* the resolution before it has run, with cmd[0] on a platform without
\* auxiliary directories
NoResolution ==
    [os_name |-> "posix", name |-> PathOf("", "codex", ""), files |-> {},
     done |-> FALSE, outcome |-> Returned(NoPath, {}), shell |-> FALSE]

(***************************************************************************)
(* The run: main builds the command, run_shell_command launches the child  *)
(* and the reader thread, and the generator's loop feeds main's loop.      *)
(***************************************************************************)
\* output_queue.put(None): the reader's end marker.
EndOfOutput == NonObj("<None>", "none")

TimeoutChoices == {0, 1}

childVars == <<proc, childOut, termBy, killBy, waited>>
readerVars == <<rpc, readLog, putLog>>
mainVars == <<delivered, res, result>>
fixedVars == <<copy, args, exe>>

Init ==
    /\ copy \in {"my", "skills"}
    /\ args \in [timeout : TimeoutChoices]
    /\ clock = 0
    /\ proc = "none"
    /\ childOut = "closed"
    /\ termBy = {}
    /\ killBy = {}
    /\ waited = 0
    /\ rpc = "unstarted"
    /\ readLog = <<>>
    /\ queue = <<>>
    /\ spc = "launch"
    /\ timed_out = FALSE
    /\ joined = "no"
    /\ delivered = <<>>
    /\ res = InitRes
    /\ result = NoResult
    /\ exit_status = -1
    /\ enqueuedAtExit = -1
    /\ putLog = <<>>
    /\ exe = NoResolution

\* time.time() advances.  The clock is read only by the deadline check of
\* the polling loop.
Tick ==
    /\ clock < MaxClock
    /\ spc \in {"check", "poll", "idle"}
    /\ clock' = clock + 1
    /\ UNCHANGED <<exit_status, enqueuedAtExit, childVars, readerVars, mainVars, fixedVars, queue, spc, timed_out, joined>>

\* subprocess.Popen succeeds; the reader thread is started.
LaunchOk ==
    /\ spc = "launch"
    /\ proc' = "running"
    /\ childOut' = "open"
    /\ rpc' = "read"
    /\ spc' = "check"
    /\ UNCHANGED <<fixedVars, exit_status, enqueuedAtExit, clock, termBy, killBy,
                   waited, readLog, putLog, queue, timed_out, joined, mainVars>>

\* subprocess.Popen raises (executable not found): nothing catches it.
LaunchFail ==
    /\ spc = "launch"
    /\ spc' = "crashed"
    /\ exit_status' = 1
    /\ UNCHANGED <<fixedVars, enqueuedAtExit, clock, childVars, readerVars, queue, timed_out,
                   joined, mainVars>>

\* The child exits (by itself, or on a termination request it honours).
ChildExit ==
    /\ proc = "running"
    /\ proc' = "exited"
    /\ childOut' = "closed"
    /\ UNCHANGED <<fixedVars, exit_status, enqueuedAtExit, clock, termBy, killBy, waited, readerVars, queue,
                   spc, timed_out, joined, mainVars>>

\* The child closes its output and keeps running.
ChildCloseOutput ==
    /\ proc = "running"
    /\ childOut = "open"
    /\ childOut' = "closed"
    /\ UNCHANGED <<fixedVars, exit_status, enqueuedAtExit, clock, proc, termBy, killBy, waited, readerVars,
                   queue, spc, timed_out, joined, mainVars>>

\* a reader that runs the sentinel check first and does not catch its
\* decode failure: the thread dies on a line that is not a JSON object
ReaderReadChecksFirst(l) ==
    /\ rpc = "read"
    /\ childOut = "open"
    /\ readLog' = Append(readLog, l)
    /\ IF l.json # "object"
       THEN /\ rpc' = "done"
            /\ UNCHANGED <<queue, putLog>>
       ELSE /\ queue' = Append(queue, l)
            /\ putLog' = Append(putLog, l)
            /\ rpc' = IF is_turn_completed(l) THEN "grace" ELSE "read"
    /\ UNCHANGED <<fixedVars, exit_status, enqueuedAtExit, clock, childVars, spc,
                   timed_out, joined, mainVars>>

\* read_output: one turn of "for line in iter(process.stdout.readline, '')":
\* the child writes line l, the reader strips and enqueues it and runs the
\* sentinel check.  A line still in the pipe when the child exits is read
\* here as if the child wrote it just before exiting.
ReaderRead(l) ==
    /\ rpc = "read"
    /\ childOut = "open"
    /\ readLog' = Append(readLog, l)
    /\ queue' = Append(queue, l)
    /\ putLog' = Append(putLog, l)
    /\ rpc' = IF is_turn_completed(l) THEN "grace" ELSE "read"
    /\ UNCHANGED <<fixedVars, exit_status, enqueuedAtExit, clock, childVars, spc, timed_out, joined, mainVars>>

\* a reader whose terminate call raises when the child was already signalled
\* or has exited: the thread dies without putting the end marker
ReaderTerminateRaises ==
    /\ rpc = "grace"
    /\ IF termBy # {} \/ killBy # {} \/ proc = "exited"
       THEN /\ rpc' = "done"
            /\ UNCHANGED termBy
       ELSE /\ rpc' = "putNone"
            /\ termBy' = termBy \cup {"reader"}
    /\ UNCHANGED <<fixedVars, exit_status, enqueuedAtExit, clock, proc, childOut,
                   killBy, waited, readLog, putLog, queue, spc, timed_out, joined,
                   mainVars>>

\* a reader that, after the sentinel, waits for the end of the stream
ReaderTerminateAtEOF ==
    /\ rpc = "grace"
    /\ childOut = "closed"
    /\ termBy' = termBy \cup {"reader"}
    /\ rpc' = "putNone"
    /\ UNCHANGED <<fixedVars, exit_status, enqueuedAtExit, clock, proc, childOut,
                   killBy, waited, readLog, putLog, queue, spc, timed_out, joined,
                   mainVars>>

\* read_output after the sentinel: sleep, process.terminate(), break,
\* process.stdout.close().
ReaderTerminate ==
    /\ rpc = "grace"
    /\ termBy' = termBy \cup {"reader"}
    /\ rpc' = "putNone"
    /\ UNCHANGED <<fixedVars, exit_status, enqueuedAtExit, clock, proc, childOut, killBy, waited, readLog, putLog,
                   queue, spc, timed_out, joined, mainVars>>

\* read_output: readline returns "" (end of stream); process.stdout.close().
ReaderEOF ==
    /\ rpc = "read"
    /\ childOut = "closed"
    /\ rpc' = "putNone"
    /\ UNCHANGED <<fixedVars, exit_status, enqueuedAtExit, clock, childVars, readLog, putLog, queue, spc, timed_out,
                   joined, mainVars>>

\* a reader that puts the end marker and goes on with its loop
ReaderPutNoneInLoop ==
    /\ rpc = "putNone"
    /\ queue' = Append(queue, EndOfOutput)
    /\ putLog' = Append(putLog, EndOfOutput)
    /\ rpc' = "read"
    /\ UNCHANGED <<fixedVars, exit_status, enqueuedAtExit, clock, childVars, readLog,
                   spc, timed_out, joined, mainVars>>

\* read_output: output_queue.put(None)
ReaderPutNone ==
    /\ rpc = "putNone"
    /\ queue' = Append(queue, EndOfOutput)
    /\ putLog' = Append(putLog, EndOfOutput)
    /\ rpc' = "exiting"
    /\ UNCHANGED <<fixedVars, exit_status, enqueuedAtExit, clock, childVars, readLog, spc, timed_out, joined,
                   mainVars>>

\* read_output returns: the thread is no longer alive.
ReaderExit ==
    /\ rpc = "exiting"
    /\ rpc' = "done"
    /\ UNCHANGED <<fixedVars, exit_status, enqueuedAtExit, clock, childVars, readLog, putLog, queue, spc, timed_out,
                   joined, mainVars>>

\* The generator yields line l and main's loop body runs on it; the loop
\* goes on at pc next unless the body breaks.
Yield(l, next) ==
    /\ delivered' = Append(delivered, l)
    /\ res' = Classify(copy, res, l, args.timeout)
    /\ spc' = IF res'.loop = "broken" THEN "closing" ELSE next
    /\ UNCHANGED result

\* a deadline check that compares the clock whatever the timeout is
SupCheckTimeoutUnguarded ==
    /\ spc = "check"
    /\ IF clock > args.timeout
       THEN /\ timed_out' = TRUE
            /\ termBy' = termBy \cup {"supervisor"}
            /\ spc' = "tgrace"
       ELSE /\ spc' = "poll"
            /\ UNCHANGED <<timed_out, termBy>>
    /\ UNCHANGED <<fixedVars, exit_status, enqueuedAtExit, clock, proc, childOut,
                   killBy, waited, readerVars, queue, joined, mainVars>>

\* run_shell_command: the timeout check at the top of the while loop.
SupCheckTimeout ==
    /\ spc = "check"
    /\ IF args.timeout # 0 /\ clock > args.timeout
       THEN /\ timed_out' = TRUE
            /\ termBy' = termBy \cup {"supervisor"}
            /\ spc' = "tgrace"
       ELSE /\ spc' = "poll"
            /\ UNCHANGED <<timed_out, termBy>>
    /\ UNCHANGED <<fixedVars, exit_status, enqueuedAtExit, clock, proc, childOut, killBy, waited, readerVars,
                   queue, joined, mainVars>>

\* a supervisor that does not escalate to kill after the grace window
SupTimeoutNoKill ==
    /\ spc = "tgrace"
    /\ Yield(TimeoutEvent, "wait")
    /\ enqueuedAtExit' = Len(readLog)
    /\ UNCHANGED <<fixedVars, exit_status, clock, childVars, readerVars, queue,
                   timed_out, joined>>

\* run_shell_command after time.sleep(2): kill if still running, break, and
\* yield the timeout event, on which main breaks.
SupTimeoutKill ==
    /\ spc = "tgrace"
    /\ IF proc = "running"
       THEN /\ killBy' = killBy \cup {"timeout"}
            /\ proc' = "exited"
            /\ childOut' = "closed"
       ELSE UNCHANGED <<killBy, proc, childOut>>
    /\ Yield(TimeoutEvent, "wait")
    /\ enqueuedAtExit' = Len(readLog)
    /\ UNCHANGED <<fixedVars, exit_status, clock, termBy, waited, readerVars, queue,
                   timed_out, joined>>

\* a polling loop that takes the newest item of the queue, not the oldest
SupGetNewest ==
    /\ spc = "poll"
    /\ queue # <<>>
    /\ queue' = SubSeq(queue, 1, Len(queue) - 1)
    /\ IF queue[Len(queue)] = EndOfOutput
       THEN /\ spc' = "wait"
            /\ enqueuedAtExit' = Len(readLog)
            /\ UNCHANGED mainVars
       ELSE /\ Yield(queue[Len(queue)], "check")
            /\ UNCHANGED enqueuedAtExit
    /\ UNCHANGED <<fixedVars, exit_status, clock, childVars, readerVars, timed_out, joined>>

\* run_shell_command: output_queue.get(timeout=0.5) returns an item.
SupGet ==
    /\ spc = "poll"
    /\ queue # <<>>
    /\ queue' = Tail(queue)
    /\ IF Head(queue) = EndOfOutput
       THEN /\ spc' = "wait"
            /\ enqueuedAtExit' = Len(readLog)
            /\ UNCHANGED mainVars
       ELSE /\ Yield(Head(queue), "check")
            /\ UNCHANGED enqueuedAtExit
    /\ UNCHANGED <<fixedVars, exit_status, clock, childVars, readerVars, timed_out, joined>>

\* run_shell_command: output_queue.get(timeout=0.5) raises queue.Empty.
SupEmpty ==
    /\ spc = "poll"
    /\ queue = <<>>
    /\ spc' = "idle"
    /\ UNCHANGED <<fixedVars, exit_status, enqueuedAtExit, clock, childVars, readerVars, queue, timed_out,
                   joined, mainVars>>

\* an idle-exit test that looks at the child only
SupIdleCheckChildOnly ==
    /\ spc = "idle"
    /\ spc' = IF proc = "exited" THEN "wait" ELSE "check"
    /\ enqueuedAtExit' = IF spc' = "wait" THEN Len(readLog) ELSE enqueuedAtExit
    /\ UNCHANGED <<fixedVars, exit_status, clock, childVars, readerVars, queue,
                   timed_out, joined, mainVars>>

\* run_shell_command: the idle-exit test in the queue.Empty handler.
SupIdleCheck ==
    /\ spc = "idle"
    /\ spc' = IF proc = "exited" /\ rpc = "done" THEN "wait" ELSE "check"
    /\ enqueuedAtExit' = IF spc' = "wait" THEN Len(readLog) ELSE enqueuedAtExit
    /\ UNCHANGED <<fixedVars, exit_status, clock, childVars, readerVars, queue, timed_out,
                   joined, mainVars>>

\* run_shell_command: process.wait(timeout=5), and on TimeoutExpired
\* process.kill(); process.wait().
SupWait ==
    /\ spc = "wait"
    /\ IF proc = "running"
       THEN /\ killBy' = killBy \cup {"shutdown"}
            /\ proc' = "exited"
            /\ childOut' = "closed"
       ELSE UNCHANGED <<killBy, proc, childOut>>
    /\ waited' = waited + 1
    /\ spc' = "join"
    /\ UNCHANGED <<fixedVars, exit_status, enqueuedAtExit, clock, termBy, readerVars, queue, timed_out,
                   joined, mainVars>>

\* run_shell_command: thread.join(timeout=5).  The join returns when the
\* thread has ended; it expires only on a reader blocked in readline, and a
\* reader past its loop ends without blocking.
SupJoin ==
    /\ spc = "join"
    /\ IF rpc = "read" THEN childOut = "open" ELSE rpc = "done"
    /\ joined' = IF rpc = "done" THEN "joined" ELSE "expired"
    /\ spc' = "drain"
    /\ UNCHANGED <<fixedVars, exit_status, enqueuedAtExit, clock, childVars, readerVars, queue, timed_out,
                   mainVars>>

\* run_shell_command: one turn of the final "while not output_queue.empty()"
\* loop, or its end, which ends the generator and main's for loop.
SupDrain ==
    /\ spc = "drain"
    /\ IF queue = <<>>
       THEN /\ spc' = "closing"
            /\ UNCHANGED <<queue, mainVars>>
       ELSE /\ queue' = Tail(queue)
            /\ IF Head(queue) = EndOfOutput
               THEN UNCHANGED <<spc, mainVars>>
               ELSE Yield(Head(queue), "drain")
    /\ UNCHANGED <<fixedVars, exit_status, enqueuedAtExit, clock, childVars, readerVars, timed_out, joined>>

\* main after the loop: the closing checks, the result dict, print.
\* args.return_all_messages is read only here; its value is drawn here.
Finish(return_all_messages) ==
    /\ spc = "closing"
    /\ res' = ClosingChecks(res)
    /\ result' = [printed |-> TRUE, return_all_messages |-> return_all_messages,
                  out |-> BuildResult(res', return_all_messages)]
    /\ spc' = "done"
    /\ UNCHANGED <<fixedVars, exit_status, enqueuedAtExit, clock, childVars, readerVars, queue, timed_out,
                   joined, delivered>>

\* main returns and the interpreter exits: it first waits for the reader
\* thread, which is not a daemon.  No sys.exit is called anywhere.
Exit ==
    /\ spc = "done"
    /\ rpc = "done"
    /\ spc' = "exited"
    /\ exit_status' = 0
    /\ UNCHANGED <<fixedVars, enqueuedAtExit, clock, childVars, readerVars, queue,
                   timed_out, joined, mainVars>>

\* Every step of the run but the reader's read of a line.
Steps ==
    \/ Tick
    \/ LaunchOk
    \/ LaunchFail
    \/ ChildExit
    \/ ChildCloseOutput
    \/ ReaderTerminate
    \/ ReaderEOF
    \/ ReaderPutNone
    \/ ReaderExit
    \/ SupCheckTimeout
    \/ SupTimeoutKill
    \/ SupGet
    \/ SupEmpty
    \/ SupIdleCheck
    \/ SupWait
    \/ SupJoin
    \/ SupDrain
    \/ \E ra \in BOOLEAN : Finish(ra)
    \/ Exit

Next ==
    \/ Steps
    \/ \E l \in ChildLines : Len(readLog) < MaxLines /\ ReaderRead(l)

Spec == Init /\ [][Next]_vars

(***************************************************************************)
(* The run under fair scheduling.  The reader thread and the main thread   *)
(* each take their next step when they can: a put, a terminate, a          *)
(* readline at end of stream, a poll that times out after 0.5 s.  Nothing  *)
(* is assumed of the child (it may never write, close its output or exit)  *)
(* nor of the clock.                                                       *)
(***************************************************************************)
LiveLines == {AgentMessage("agent_message a", <<"a">>), TurnCompleted, JsonNumber}

ReaderSteps == ReaderTerminate \/ ReaderEOF \/ ReaderPutNone \/ ReaderExit

MainSteps ==
    \/ SupCheckTimeout
    \/ SupTimeoutKill
    \/ SupGet
    \/ SupEmpty
    \/ SupIdleCheck
    \/ SupWait
    \/ SupJoin
    \/ SupDrain
    \/ \E ra \in BOOLEAN : Finish(ra)
    \/ Exit

NextLive ==
    \/ Steps
    \/ \E l \in LiveLines : Len(readLog) < MaxLines /\ ReaderRead(l)

SpecLive ==
    /\ Init
    /\ [][NextLive]_vars
    /\ WF_vars(ReaderSteps)
    /\ WF_vars(MainSteps)

(***************************************************************************)
(* The run on a child that emits a well-formed stream: thread.started,     *)
(* then agent messages, then turn.completed (or a prefix of one, when it   *)
(* stops early).                                                           *)
(***************************************************************************)
IsThreadStarted(l) == l.json = "object" /\ l.type = "thread.started"

WellFormedPrefix(s) ==
    /\ Len(s) <= MaxMsgs + 2
    /\ \A i \in 1..Len(s) :
          \/ i = 1 /\ IsThreadStarted(s[i])
          \/ i > 1 /\ i <= MaxMsgs + 1 /\ s[i] \in Messages
          \/ i > 2 /\ i = Len(s) /\ s[i] = TurnCompleted

WellFormed(s) == Len(s) >= 3 /\ WellFormedPrefix(s) /\ s[Len(s)] = TurnCompleted

NextWellFormed ==
    \/ Steps
    \/ \E l \in Lines : WellFormedPrefix(Append(readLog, l)) /\ ReaderRead(l)

SpecWellFormed == Init /\ [][NextWellFormed]_vars

(***************************************************************************)
(* main's loop alone, fed by a generator that may yield any line in any    *)
(* order, the timeout event when a timeout is configured, and then end.    *)
(***************************************************************************)
InitClassify ==
    /\ copy \in {"my", "skills"}
    /\ args \in [timeout : TimeoutChoices]
    /\ clock = 0
    /\ proc = "running"
    /\ childOut = "open"
    /\ termBy = {}
    /\ killBy = {}
    /\ waited = 0
    /\ rpc = "read"
    /\ readLog = <<>>
    /\ queue = <<>>
    /\ spc = "check"
    /\ timed_out = FALSE
    /\ joined = "no"
    /\ delivered = <<>>
    /\ res = InitRes
    /\ result = NoResult
    /\ exit_status = -1
    /\ enqueuedAtExit = -1
    /\ putLog = <<>>
    /\ exe = NoResolution

\* the generator yields a line of the child
Feed(l) ==
    /\ spc = "check"
    /\ Len(delivered) < MaxFeed
    /\ Yield(l, "check")
    /\ UNCHANGED <<fixedVars, exit_status, enqueuedAtExit, clock, childVars, readerVars, queue, timed_out, joined>>

\* the generator yields its timeout event
FeedTimeout ==
    /\ spc = "check"
    /\ args.timeout # 0
    /\ timed_out' = TRUE
    /\ Yield(TimeoutEvent, "check")
    /\ UNCHANGED <<fixedVars, exit_status, enqueuedAtExit, clock, childVars, readerVars, queue, joined>>

\* the generator is exhausted
FeedEnd ==
    /\ spc = "check"
    /\ spc' = "closing"
    /\ UNCHANGED <<fixedVars, exit_status, enqueuedAtExit, clock, childVars, readerVars, queue, timed_out,
                   joined, mainVars>>

NextClassify ==
    \/ \E l \in Lines : Feed(l)
    \/ FeedTimeout
    \/ FeedEnd
    \/ \E ra \in BOOLEAN : Finish(ra)

SpecClassify == InitClassify /\ [][NextClassify]_vars

\* main's loop fed with item events
NextItems ==
    \/ \E l \in ItemLines : Feed(l)
    \/ FeedEnd
    \/ \E ra \in BOOLEAN : Finish(ra)

SpecItems == InitClassify /\ [][NextItems]_vars

(***************************************************************************)
(* Vocabulary of the properties.                                           *)
(***************************************************************************)
Last(s) == s[Len(s)]

\* a step in which main's loop body runs on a line
Classifies == Len(delivered') = Len(delivered) + 1

IsAgentMessage(l) == l.json = "object" /\ l.type # "timeout" /\ l.item_type = "agent_message"

IsFailureOrError(l) ==
    /\ l.json = "object"
    /\ l.type # "timeout"
    /\ \/ ContainsFail(Get(l.type, ""))
       \/ ContainsError(Get(l.type, "")) /\ ~IsReconnecting(Get(l.message, ""))

MessageOf(l) ==
    IF ContainsFail(Get(l.type, "")) THEN Get(l.error_message, "") ELSE Get(l.message, "")

CarriesThreadId(l) == l.json = "object" /\ l.type # "timeout" /\ l.thread_id # ABSENT

RECURSIVE ConcatTexts(_)
ConcatTexts(s) ==
    IF s = <<>> THEN <<>>
    ELSE (IF IsAgentMessage(Head(s)) THEN Head(s).text ELSE <<>>) \o ConcatTexts(Tail(s))

IsPrefix(a, b) == Len(a) <= Len(b) /\ SubSeq(b, 1, Len(a)) = a

Mentions(log, tag) == \E i \in 1..Len(log) : log[i].tag = tag

\* main's loop and closing code run on the line sequence s, as a function
RECURSIVE RunLoop(_, _, _, _)
RunLoop(c, r, s, timeout) ==
    IF s = <<>> \/ r.loop = "broken" THEN r
    ELSE RunLoop(c, Classify(c, r, Head(s), timeout), Tail(s), timeout)

FinalResult(c, s, timeout, return_all_messages) ==
    BuildResult(ClosingChecks(RunLoop(c, InitRes, s, timeout)), return_all_messages)

InsertAt(s, i, l) == SubSeq(s, 1, i) \o <<l>> \o SubSeq(s, i + 1, Len(s))

(***************************************************************************)
(* C1.  A well-formed stream (thread.started carrying T, one or more agent *)
(* messages, turn.completed), read in a run whose deadline check never     *)
(* fires, gives success = true, session id T and the texts concatenated in *)
(* arrival order.                                                          *)
(***************************************************************************)
C1_Conclusion ==
    /\ result.out.success = TRUE
    /\ result.out.SESSION_ID = readLog[1].thread_id
    /\ result.out.agent_messages = ConcatTexts(readLog)

\* C1 as stated: for every well-formed stream.
C1_AsStated ==
    (result.printed /\ ~timed_out /\ WellFormed(readLog)) => C1_Conclusion

\* C1 as amended: for every well-formed stream whose texts are not all empty,
\* the final result has success = true, session id T and agent text
\* t1 ++ ... ++ tn.
C1_WellFormedStream ==
    (result.printed /\ ~timed_out /\ WellFormed(readLog) /\ ConcatTexts(readLog) # <<>>)
        => C1_Conclusion

C1_Witness ==
    /\ result.printed /\ ~timed_out /\ WellFormed(readLog)
    /\ Len(readLog) = 4
    /\ result.out.success = TRUE
    /\ result.out.agent_messages = <<"a", "b">>
    /\ result.out.SESSION_ID = "T2"

(***************************************************************************)
(* C2.  success only moves from true to false: no classification step and  *)
(* no closing check sets it back to true.                                  *)
(***************************************************************************)
C2_SuccessNeverRestored == [][res.success = FALSE => res'.success = FALSE]_vars

C2_Witness ==
    /\ result.printed
    /\ delivered = <<TurnFailed, ThreadStarted("T1"), AgentMessage("agent_message a", <<"a">>)>>
    /\ result.out.success = FALSE

(***************************************************************************)
(* C3.  A failure or non-transient error event leaves success unchanged    *)
(* when classified after an agent message, sets it to false when           *)
(* classified before any, and its message is appended to the error log.    *)
(***************************************************************************)
C3_Appended ==
    res'.err_message = Append(res.err_message,
                              Piece("[codex error]", <<MessageOf(Last(delivered'))>>))

\* C3 as stated: the test is whether an agent_message event came before.
C3_AsStated ==
    [][(Classifies /\ IsFailureOrError(Last(delivered')))
         => /\ IF \E i \in 1..Len(delivered) : IsAgentMessage(delivered[i])
               THEN res'.success = res.success
               ELSE res'.success = FALSE
            /\ C3_Appended]_vars

\* C3 as amended: a failure or non-transient error event leaves success
\* unchanged when the agent text is non-empty at the time it is classified,
\* and sets success to false when the agent text is empty; in both cases its
\* message is appended to the error log.
C3_FailureAfterText ==
    [][(Classifies /\ IsFailureOrError(Last(delivered')))
         => /\ IF res.agent_messages # <<>>
               THEN res'.success = res.success
               ELSE res'.success = FALSE
            /\ C3_Appended]_vars

C3_Witness ==
    /\ delivered = <<ThreadStarted("T1"), AgentMessage("agent_message a", <<"a">>), TurnFailed>>
    /\ res.success = TRUE
    /\ res.err_message = <<Piece("[codex error]", <<"boom">>)>>

(***************************************************************************)
(* C4.  A stream without a thread.started event ends with success = false. *)
(***************************************************************************)
\* C4 as stated: no event of type thread.started.
C4_AsStated ==
    (result.printed /\ \A i \in 1..Len(delivered) : delivered[i].type # "thread.started")
        => result.out.success = FALSE

\* C4 as amended: for every line stream in which no event carries a thread
\* id, the final result has success = false.
C4_NoThreadId ==
    (result.printed /\ \A i \in 1..Len(delivered) : ~CarriesThreadId(delivered[i]))
        => result.out.success = FALSE

C4_Witness ==
    /\ result.printed
    /\ delivered = <<AgentMessage("agent_message a", <<"a">>), TurnCompleted>>
    /\ result.out.success = FALSE
    /\ Mentions(result.out.error, "Failed to get SESSION_ID")

(***************************************************************************)
(* C5.  A stream without an agent_message item ends with success = false.  *)
(***************************************************************************)
C5_NoAgentMessage ==
    (result.printed /\ \A i \in 1..Len(delivered) : ~IsAgentMessage(delivered[i]))
        => result.out.success = FALSE

C5_Witness ==
    /\ result.printed
    /\ delivered = <<ThreadStarted("T1"), Reasoning, TurnCompleted>>
    /\ result.out.success = FALSE
    /\ Mentions(result.out.error, "Failed to get agent_messages")

(***************************************************************************)
(* C6.  A line that is not JSON appends a decode diagnostic to the error   *)
(* log, leaves success, session id and agent text unchanged, and does not  *)
(* stop the loop: the lines after it are still classified.                 *)
(***************************************************************************)
C6_DecodeFailureContinues ==
    [][(Classifies /\ Last(delivered').json = "invalid")
         => /\ res'.err_message = Append(res.err_message,
                                       Piece("[json decode error]", <<Last(delivered').raw>>))
            /\ res'.success = res.success
            /\ res'.thread_id = res.thread_id
            /\ res'.agent_messages = res.agent_messages
            /\ res'.loop = "running"
            /\ spc' \in {"check", "drain"}]_vars

C6_Witness ==
    /\ result.printed
    /\ delivered = <<NotJson, ThreadStarted("T1"), AgentMessage("agent_message a", <<"a">>)>>
    /\ result.out.success = TRUE
    /\ result.out.SESSION_ID = "T1"
    /\ result.out.agent_messages = <<"a">>

(***************************************************************************)
(* C7.  Once the session id is set, no later event changes it.             *)
(***************************************************************************)
C7_SessionIdNeverOverwritten ==
    [][res.thread_id # NONE => res'.thread_id = res.thread_id]_vars

(***************************************************************************)
(* C8.  The agent text only grows by appending and always equals the       *)
(* concatenation of the texts of the agent_message events classified so    *)
(* far, in classification order.                                           *)
(***************************************************************************)
C8_AgentTextAppendOnly ==
    /\ [](res.agent_messages = ConcatTexts(delivered))
    /\ [][IsPrefix(res.agent_messages, res'.agent_messages)]_vars

C8_Witness ==
    /\ delivered = <<AgentMessage("agent_message b", <<"b">>), Reasoning,
                     AgentMessage("agent_message a", <<"a">>)>>
    /\ res.agent_messages = <<"b", "a">>

(***************************************************************************)
(* C9.  An error event with the reconnect message changes nothing in the   *)
(* session result, so inserting one anywhere in a stream gives the same    *)
(* final result.                                                           *)
(***************************************************************************)
C9_Frame ==
    (Classifies /\ Last(delivered') = Reconnecting)
        => /\ res'.success = res.success
           /\ res'.thread_id = res.thread_id
           /\ res'.agent_messages = res.agent_messages
           /\ res'.err_message = res.err_message
           /\ res'.loop = res.loop

\* C9 as stated: the final result object is the same, whatever the flags.
C9_AsStated ==
    result.printed =>
        \A i \in 0..Len(delivered) :
            FinalResult(copy, InsertAt(delivered, i, Reconnecting), args.timeout,
                        result.return_all_messages) = result.out

WithoutTrace(out) == [k \in DOMAIN out \ {"all_messages"} |-> out[k]]

\* C9 as amended: a reconnect error event leaves success, session id, agent
\* text and error log unchanged, so inserting one anywhere in a stream gives
\* the same final result object except for all_messages, which (when
\* requested) also lists the inserted event.
C9_ReconnectIgnored ==
    /\ [][C9_Frame]_vars
    /\ [](result.printed =>
            \A i \in 0..Len(delivered) :
                WithoutTrace(FinalResult(copy, InsertAt(delivered, i, Reconnecting),
                                         args.timeout, result.return_all_messages))
                    = WithoutTrace(result.out))

C9_Witness ==
    /\ result.printed
    /\ delivered = <<Reconnecting, ThreadStarted("T1"), AgentMessage("agent_message a", <<"a">>)>>
    /\ result.out.success = TRUE
    /\ res.err_message = <<>>

C11_SuccessHasIdAndText ==
    (result.printed /\ result.out.success) =>
        /\ result.out.SESSION_ID \notin {NONE, ""}
        /\ result.out.agent_messages # <<>>

\* a classified event carried a non-empty thread id
SessionIdCaptured ==
    \E i \in 1..Len(delivered) :
        CarriesThreadId(delivered[i]) /\ delivered[i].thread_id # ""

\* C12: the printed result has exactly the fields success, SESSION_ID and
\* agent_messages when success is true; success, error, and SESSION_ID if
\* and only if a session id was captured, when success is false; and
\* all_messages if and only if the full trace was requested.
C12_ResultShape ==
    result.printed =>
        DOMAIN result.out =
            (IF result.out.success
             THEN {"success", "SESSION_ID", "agent_messages"}
             ELSE {"success", "error"}
                  \cup (IF SessionIdCaptured THEN {"SESSION_ID"} ELSE {}))
            \cup (IF result.return_all_messages THEN {"all_messages"} ELSE {})

\* C13: when the bridge process has exited after printing its result, its
\* exit status is the success status (0) if and only if the result has
\* success = true.
C13_ExitStatusReflectsSuccess ==
    (exit_status # -1 /\ result.printed) =>
        (exit_status = 0 <=> result.out.success)

\* the run is over: main has returned, or the process has ended
RunEnded == spc \in {"done", "exited", "crashed"}

\* C14: every run that is over has printed its result object, whatever the
\* path it ended on, the failure to launch the child included.
C14_EveryRunPrintsAResult == RunEnded => result.printed

(***************************************************************************)
(* The reader thread, the queue and the polling loop.                      *)
(***************************************************************************)
\* the lines of the child that main's loop has classified, in order
ChildDelivered == SelectSeq(delivered, LAMBDA l : l # TimeoutEvent)

\* C15: in every interleaving the lines of the child handed to the
\* classifier are, in order, the first lines the reader read: none is
\* classified twice and no two are classified in the opposite order.
C15_ClassifiedInReadOrder == IsPrefix(ChildDelivered, readLog)

\* three lines read, the first two different, all classified, the run ended
C15_Witness ==
    /\ spc = "done"
    /\ Len(readLog) = MaxLines
    /\ readLog[1] # readLog[2]
    /\ ChildDelivered = readLog

\* main's loop stopped on a line of the child (unexpected error, or a line
\* of the child of type timeout)
BrokeOnChildLine == res.loop = "broken" /\ Last(delivered) # TimeoutEvent

\* C16: when the result is printed after the polling loop exited (end
\* marker, idle exit or deadline), every line the reader had enqueued by
\* then has been classified, unless the classifier itself stopped on a line.
C16_EnqueuedLinesAreClassified ==
    (result.printed /\ enqueuedAtExit # -1 /\ ~BrokeOnChildLine) =>
        Len(ChildDelivered) >= enqueuedAtExit

\* C17: when the result is printed, the child has been waited on exactly
\* once, the reader thread has been joined, and the child is not still
\* running without having been sent a termination or kill signal.
C17_ReleasedBeforeResult ==
    result.printed =>
        /\ waited = 1
        /\ joined # "no"
        /\ ~(proc = "running" /\ termBy = {} /\ killBy = {})

\* C18: with timeout 0 the deadline check never fires: the timed_out flag
\* stays false, the supervisor never terminates or kills the child for
\* elapsed time, and no synthetic timeout event is yielded.
C18_NoDeadlineWithoutTimeout ==
    args.timeout = 0 =>
        /\ ~timed_out
        /\ "supervisor" \notin termBy
        /\ "timeout" \notin killBy
        /\ \A i \in 1..Len(delivered) : delivered[i] # TimeoutEvent

\* a run without timeout that went on as long as the clock runs and ended
\* with a successful result
C18_Witness ==
    /\ args.timeout = 0
    /\ clock = MaxClock
    /\ result.printed
    /\ result.out.success

(***************************************************************************)
(* The error log.                                                          *)
(***************************************************************************)
\* C19: the error log is append-only: every diagnostic in it before a step
\* is still in it after the step.
C19_ErrorLogAppendOnly ==
    [][\A i \in 1..Len(res.err_message) :
           \E j \in 1..Len(res'.err_message) :
               res'.err_message[j] = res.err_message[i]]_vars

\* the step in which main runs the closing checks and prints
Closes == spc = "closing" /\ spc' = "done"

\* C20 (as stated): at end of stream the error log names the missing
\* session id whenever no session id was captured, and the missing agent
\* text whenever the agent text is empty, each whatever the other check
\* found and whatever success was.
C20_AsStated ==
    result.printed =>
        /\ res.thread_id = NONE =>
               Mentions(res.err_message, "Failed to get SESSION_ID")
        /\ res.agent_messages = <<>> =>
               Mentions(res.err_message, "Failed to get agent_messages")

\* C20 (amended): a closing check writes its diagnostic only while success
\* is still true: the missing session id is named exactly when no session
\* id was captured and success was true at end of stream, and the missing
\* agent text exactly when success was true, a session id was captured and
\* the agent text is empty.
C20_ClosingDiagnostics ==
    [][Closes =>
          /\ Mentions(res'.err_message, "Failed to get SESSION_ID")
                 <=> (res.success /\ res.thread_id = NONE)
          /\ Mentions(res'.err_message, "Failed to get agent_messages")
                 <=> (res.success /\ res.thread_id # NONE /\ res.agent_messages = <<>>)]_vars

\* both checks violated at end of stream: only the session id is named
C20_Witness ==
    /\ result.printed
    /\ res.thread_id = NONE
    /\ res.agent_messages = <<>>
    /\ delivered # <<>>
    /\ Mentions(res.err_message, "Failed to get SESSION_ID")
    /\ ~Mentions(res.err_message, "Failed to get agent_messages")

(***************************************************************************)
(* The timeout event.                                                      *)
(***************************************************************************)
IsTimeoutEvent(l) == l.json = "object" /\ l.type = "timeout"

\* C21: classifying a timeout event sets success to false whatever the
\* agent text, and appends to the error log a timeout diagnostic that
\* carries the first PARTIAL_LIMIT characters of the agent text so far.
C21_TimeoutDiagnosticAppended ==
    [][(Classifies /\ IsTimeoutEvent(Last(delivered'))) =>
          /\ ~res'.success
          /\ IsPrefix(res.err_message, res'.err_message)
          /\ Mentions(res'.err_message, "[TIMEOUT] Execution exceeded")
          /\ res.agent_messages # <<>> =>
                 \E i \in 1..Len(res'.err_message) :
                     res'.err_message[i] =
                         Piece("Partial results",
                               Prefix(res.agent_messages, PARTIAL_LIMIT))]_vars

(***************************************************************************)
(* The reader thread.                                                      *)
(***************************************************************************)
\* C22: the reader puts the end marker at most once and puts nothing after
\* it, and a reader that has ended has put it.
C22_EndMarkerOnceAndLast ==
    /\ \A i \in 1..Len(putLog) : putLog[i] = EndOfOutput => i = Len(putLog)
    /\ rpc = "done" => (putLog # <<>> /\ Last(putLog) = EndOfOutput)

\* the reader stopped on turn.completed after two other lines and has ended
C22_Witness ==
    /\ rpc = "done"
    /\ "reader" \in termBy
    /\ Len(putLog) = MaxLines + 1
    /\ Last(putLog) = EndOfOutput

\* the polling loop of run_shell_command has been left
LoopExited == spc \notin {"launch", "check", "poll", "idle", "tgrace"}

EndMarkerPut == putLog # <<>> /\ Last(putLog) = EndOfOutput

\* C23: the reader puts the turn.completed line on the queue before it acts
\* on it; it then requests termination and stops reading without waiting
\* for the end of the stream; after that the end marker is eventually put
\* and the polling loop eventually left, whatever the child does.
C23_SentinelEndsTheLoop ==
    /\ [][/\ (rpc = "read" /\ rpc' = "grace") =>
                 (putLog' = Append(putLog, TurnCompleted) /\ termBy' = termBy)
          /\ (rpc = "grace" /\ rpc' # "grace") =>
                 /\ "reader" \in termBy'
                 /\ rpc' = "putNone"
                 /\ readLog' = readLog]_vars
    /\ (rpc = "grace") ~> EndMarkerPut
    /\ (rpc = "grace") ~> LoopExited

\* the end marker was put and the loop left by it while the child, asked to
\* terminate, still runs with its output open
C23_Witness ==
    /\ "reader" \in termBy
    /\ proc = "running"
    /\ childOut = "open"
    /\ EndMarkerPut
    /\ spc = "wait"
    /\ ~timed_out

(***************************************************************************)
(* The supervisor.                                                         *)
(***************************************************************************)
TimeoutEventsYielded ==
    Cardinality({i \in 1..Len(delivered) : delivered[i] = TimeoutEvent})

\* C24: when the deadline check fires the supervisor sets timed_out and
\* requests termination; when the grace window ends the child has exited,
\* killed by the supervisor if it was still running, the timeout event is
\* yielded and the polling loop is left; the event is yielded at most once.
C24_DeadlineEscalates ==
    /\ [](TimeoutEventsYielded <= 1)
    /\ [][/\ (spc = "check" /\ spc' = "tgrace") =>
                 (timed_out' /\ "supervisor" \in termBy')
          /\ (spc = "tgrace" /\ spc' # "tgrace") =>
                 /\ proc' = "exited"
                 /\ proc = "running" => "timeout" \in killBy'
                 /\ delivered' = Append(delivered, TimeoutEvent)
                 /\ LoopExited']_vars

\* a child that ignored the termination request was killed and the timeout
\* result printed
C24_Witness ==
    /\ timed_out
    /\ termBy = {"supervisor"}
    /\ "timeout" \in killBy
    /\ TimeoutEventsYielded = 1
    /\ result.printed

\* C25: after an empty poll the polling loop is left exactly when the
\* child has exited and the reader thread has ended; otherwise the loop
\* goes on with its next turn.
C25_IdleExit ==
    [][(spc = "idle" /\ spc' # "idle") =>
          IF proc = "exited" /\ rpc = "done"
          THEN spc' = "wait"
          ELSE spc' = "check"]_vars

\* the loop was left on an empty poll: the end marker, put after the poll,
\* is still in the queue
C25_Witness ==
    /\ spc = "wait"
    /\ queue = <<EndOfOutput>>
    /\ proc = "exited"
    /\ rpc = "done"

\* The phases of a run: RUNNING while the polling loop accepts lines,
\* DRAINING from the end of the loop to the end of the generator,
\* TERMINATED once main's loop is over and the result is reported.
Phase ==
    IF spc \in {"launch", "check", "poll", "idle", "tgrace"} THEN "RUNNING"
    ELSE IF spc \in {"wait", "join", "drain"} THEN "DRAINING"
    ELSE "TERMINATED"

PhaseBefore(p, q) ==
    \/ p = q
    \/ p = "RUNNING"
    \/ p = "DRAINING" /\ q = "TERMINATED"

\* C26: the run never moves back from a phase to an earlier one, and once
\* TERMINATED no thread reads from the child, puts an item on the queue, or
\* signals the child.
C26_TerminatedIsFinal ==
    [][/\ PhaseBefore(Phase, Phase')
       /\ Phase = "TERMINATED" =>
              /\ readLog' = readLog
              /\ putLog' = putLog
              /\ termBy' = termBy
              /\ killBy' = killBy]_vars

\* the child has been signalled by the supervisor, or has exited
SignalledOrGone ==
    \/ "supervisor" \in termBy
    \/ killBy # {}
    \/ proc = "exited"

\* C27: a reader about to request termination of a child that the
\* supervisor has already signalled, or that has exited, still puts the end
\* marker; and whenever both have requested termination, or the reader has
\* and the supervisor is shutting down, the supervisor's shutdown completes
\* and the result is printed.
C27_TerminationIdempotent ==
    /\ (rpc = "grace" /\ SignalledOrGone) ~> EndMarkerPut
    /\ (termBy = {"reader", "supervisor"}) ~> result.printed
    /\ ("reader" \in termBy /\ Phase = "DRAINING") ~> result.printed

\* the reader and the supervisor both requested termination, the supervisor
\* also killed the child; the end marker was put and the result printed
C27_Witness ==
    /\ termBy = {"reader", "supervisor"}
    /\ "timeout" \in killBy
    /\ EndMarkerPut
    /\ result.printed

\* some thread of the bridge can take its next step without the child
\* writing, closing its output or exiting
BridgeCanStep == ENABLED (LaunchOk \/ LaunchFail \/ ReaderSteps \/ MainSteps)

\* C28: with a positive timeout the bridge, until its process has exited,
\* is never blocked without bound: in every state some thread of the bridge
\* can go on whatever the child does, so that every run reports its result
\* and terminates.
C28_NeverBlockedOnTheChild ==
    (args.timeout # 0 /\ exit_status = -1) => BridgeCanStep

\* the reader reads a line in this step
Reads == Len(readLog') = Len(readLog) + 1

\* C29: the line the reader reads is put on the queue in the same turn of
\* its loop, whatever the sentinel check finds; a line that does not decode
\* to a JSON object is put too, and the reader then neither requests
\* termination nor stops reading.
C29_EnqueuedWhateverTheCheck ==
    [][Reads =>
          /\ putLog' = Append(putLog, Last(readLog'))
          /\ queue' = Append(queue, Last(readLog'))
          /\ Last(readLog').json # "object" =>
                 (rpc' = "read" /\ termBy' = termBy)]_vars

\* a line that is not JSON was read and put, and the reader read on
C29_Witness ==
    /\ Len(readLog) >= 2
    /\ readLog[1] = NotJson
    /\ putLog[1] = NotJson
    /\ putLog[2] = readLog[2]
    /\ termBy = {}

(***************************************************************************)
(* The other item events.                                                  *)
(***************************************************************************)
\* an item event whose item is not an agent message
IsOtherItem(l) ==
    /\ l.json = "object"
    /\ l.type = "item.completed"
    /\ l.item_type \notin {ABSENT, "agent_message"}

\* C30: classifying an item event whose item is a function call, a function
\* call output, a command execution, a reasoning or an unrecognized item
\* leaves success, the agent text, the session id and the error log as they
\* were, goes on with the loop, and records the event in all_messages.
C30_OtherItemsChangeNothing ==
    [][(Classifies /\ IsOtherItem(Last(delivered'))) =>
          /\ res'.success = res.success
          /\ res'.agent_messages = res.agent_messages
          /\ res'.thread_id = res.thread_id
          /\ res'.err_message = res.err_message
          /\ res'.loop = res.loop
          /\ res'.all_messages = Append(res.all_messages, Last(delivered').raw)]_vars

(***************************************************************************)
(* The launcher's first step alone (src/skills copy): the environment is   *)
(* copied, cmd[0] is resolved and put back at the head of the command.     *)
(* The platform, the command name and the files present are drawn freely.  *)
(***************************************************************************)
InitResolve ==
    /\ copy = "skills"
    /\ args \in [timeout : {0}]
    /\ clock = 0
    /\ proc = "none"
    /\ childOut = "closed"
    /\ termBy = {}
    /\ killBy = {}
    /\ waited = 0
    /\ rpc = "unstarted"
    /\ readLog = <<>>
    /\ queue = <<>>
    /\ spc = "launch"
    /\ timed_out = FALSE
    /\ joined = "no"
    /\ delivered = <<>>
    /\ res = InitRes
    /\ result = NoResult
    /\ exit_status = -1
    /\ enqueuedAtExit = -1
    /\ putLog = <<>>
    /\ exe \in { [NoResolution EXCEPT !.os_name = o, !.name = n, !.files = f] :
                   o \in OsNames, n \in Names, f \in SUBSET FileChoices }

\* exe_path = _resolve_executable(cmd[0], env); nothing is run to find it
ResolveExecutable ==
    /\ spc = "launch"
    /\ ~exe.done
    /\ exe' = [exe EXCEPT
                 !.done = TRUE,
                 !.outcome = _resolve_executable(exe.name, exe.os_name, exe.files),
                 !.shell = FALSE]
    /\ UNCHANGED <<copy, args, clock, childVars, readerVars, mainVars, queue,
                   spc, timed_out, joined, exit_status, enqueuedAtExit>>

NextResolve ==
    \/ ResolveExecutable

SpecResolve == InitResolve /\ [][NextResolve]_vars

\* the name contains a path separator of the platform
ContainsSeparator(os_name, name) ==
    SepIn(name.dir) \cap {Sep(os_name), AltSep(os_name)} # {}

\* the files that are candidates for a name: the name itself in a directory
\* of the search path, and on Windows the name with a Windows executable
\* extension in a directory of the search path or an auxiliary directory
CandidateFiles(os_name, name) ==
    { Join(d, name) : d \in Range(PathDirs) }
    \cup IF os_name = "nt"
         THEN { Join(d, WithExt(name, e)) :
                  d \in Range(PathDirs) \cup Range(NpmDirs(os_name)),
                  e \in win_exts }
         ELSE {}

\* C31: executable resolution returns and runs no shell; with no candidate
\* file on the search path or in the auxiliary install directories it returns
\* the name it was given, and a name that contains a path separator is
\* returned as given without any look-up in the file system.
C31_ResolutionDefersToLaunch ==
    exe.done =>
        /\ exe.outcome.raised = ""
        /\ ~exe.shell
        /\ (CandidateFiles(exe.os_name, exe.name) \cap exe.files = {}
              => exe.outcome.path = exe.name)
        /\ (ContainsSeparator(exe.os_name, exe.name)
              => exe.outcome.path = exe.name /\ exe.outcome.probed = {})

\* a bare name resolved on a file system that holds files, none of them a
\* candidate: the name comes back after the look-ups
C31_Witness ==
    /\ exe.done
    /\ exe.name.dir = ""
    /\ exe.files # {}
    /\ CandidateFiles(exe.os_name, exe.name) \cap exe.files = {}
    /\ exe.outcome.probed # {}
    /\ exe.outcome.path = exe.name

(***************************************************************************)
(* C32.  Once main's loop has classified a turn.completed event with       *)
(* success still true and a session id and agent text collected, the run   *)
(* is not reported as a timeout failure.                                   *)
(***************************************************************************)
\* main's loop has classified a turn.completed event with success true, a
\* session id and agent text
TurnCompletedClassified ==
    \E k \in 1..Len(delivered) :
        /\ is_turn_completed(delivered[k])
        /\ LET r == RunLoop(copy, InitRes, SubSeq(delivered, 1, k), args.timeout)
           IN /\ r.success
              /\ Truthy(r.thread_id)
              /\ r.agent_messages # <<>>

\* C32: a run whose turn.completed event was classified with success true,
\* a session id and agent text does not end as a timeout failure.
C32_CompletedTurnNotTimedOut ==
    (result.printed /\ TurnCompletedClassified)
        => ~(timed_out /\ result.out.success = FALSE)

(***************************************************************************)
(* main's loop fed with lines that decode as JSON but are not the events   *)
(* the script expects: values that are not objects, and objects with a     *)
(* key of the wrong type, in events that read the key and in events that   *)
(* do not.                                                                 *)
(***************************************************************************)
WithBad(line, keys) == [line EXCEPT !.bad = keys]

JsonString == NonObj("\"abc\"", "scalar")
JsonList == NonObj("[1]", "scalar")
JsonNull == NonObj("null", "scalar")

ItemNumber == WithBad(Item("item 5", ABSENT), {"item"})
AgentTextNumber == WithBad(AgentMessage("agent_message (text 5)", <<>>), {"text"})
CommandTextNumber == WithBad(Item("command_execution (text 5)", "command_execution"), {"text"})
FailErrorNumber ==
    WithBad(Obj("turn.failed (error 5)", "turn.failed", ABSENT, ABSENT, <<>>, ABSENT, ABSENT),
            {"error"})
FailMessageNumber ==
    WithBad(Obj("turn.failed (error.message 5)", "turn.failed", ABSENT, ABSENT, <<>>, ABSENT, ABSENT),
            {"error.message"})
ErrorMessageNumber ==
    WithBad(Obj("error (message 5)", "error", ABSENT, ABSENT, <<>>, ABSENT, ABSENT),
            {"message"})
TurnStartedMessageNumber ==
    WithBad(Obj("turn.started (message 5)", "turn.started", ABSENT, ABSENT, <<>>, ABSENT, ABSENT),
            {"message"})
TurnStartedErrorNumber ==
    WithBad(Obj("turn.started (error 5)", "turn.started", ABSENT, ABSENT, <<>>, ABSENT, ABSENT),
            {"error"})

MalformedLines ==
    {ThreadStarted("T1"), AgentMessage("agent_message a", <<"a">>), TurnFailed,
     JsonNumber, JsonString, JsonList, JsonNull,
     ItemNumber, AgentTextNumber, CommandTextNumber,
     FailErrorNumber, FailMessageNumber, ErrorMessageNumber,
     TurnStartedMessageNumber, TurnStartedErrorNumber}

NextMalformed ==
    \/ \E l \in MalformedLines : Feed(l)
    \/ FeedEnd
    \/ \E ra \in BOOLEAN : Finish(ra)

SpecMalformed == InitClassify /\ [][NextMalformed]_vars

(***************************************************************************)
(* C33.  A line that decodes as JSON but is not usable as an event is      *)
(* handled as an unexpected error: success false, an unexpected-error      *)
(* diagnostic appended, classification stopped.                            *)
(***************************************************************************)
\* the line is handled as an unexpected error by the step
HandledAsUnexpected ==
    /\ res'.success = FALSE
    /\ res'.err_message =
           Append(res.err_message, Piece("[unexpected error]", <<Last(delivered').raw>>))
    /\ res'.loop = "broken"

\* not usable as the claim words it: not an object at top level, or an
\* item, error, message or text of the wrong type
NotUsable(l) == l.json = "scalar" \/ l.bad # {}

\* not usable by the code of copy c: not an object at top level, or a key of
\* the wrong type that the body reads for this event
ReadsWrongType(c, l) ==
    \/ l.json = "scalar"
    \/ /\ l.json = "object"
       /\ Get(l.type, "") # "timeout"
       /\ \/ "item" \in l.bad
          \/ Get(l.item_type, "") = "agent_message" /\ "text" \in l.bad
          \/ ContainsFail(Get(l.type, "")) /\ l.bad \cap {"error", "error.message"} # {}
          \/ /\ ContainsError(Get(l.type, ""))
             /\ c = "skills" \/ ~ContainsFail(Get(l.type, ""))
             /\ "message" \in l.bad

\* C33 as stated: every line that is not an object, or has an item, error,
\* message or text of the wrong type, is handled as an unexpected error and
\* is the last line classified.
C33_AsStated ==
    /\ [][(Classifies /\ NotUsable(Last(delivered'))) => HandledAsUnexpected]_vars
    /\ [](\A k \in 1..Len(delivered) : NotUsable(delivered[k]) => k = Len(delivered))

\* C33 as amended: every line that is not an object at top level, or in
\* which a key that the loop body reads for this event (item; the text of
\* an agent_message item; error or its message in a failure event; message
\* in an error event) has the wrong type, sets success to false, appends an
\* unexpected-error diagnostic and is the last line classified.
C33_UnusableLineStopsTheLoop ==
    /\ [][(Classifies /\ ReadsWrongType(copy, Last(delivered'))) => HandledAsUnexpected]_vars
    /\ [](\A k \in 1..Len(delivered) :
             ReadsWrongType(copy, delivered[k]) => k = Len(delivered))

\* an agent message whose text is a number, classified after a session id
\* and a text: the run fails there
C33_Witness ==
    /\ delivered = <<ThreadStarted("T1"), AgentMessage("agent_message a", <<"a">>),
                     AgentTextNumber>>
    /\ res.success = FALSE
    /\ res.loop = "broken"
    /\ Last(res.err_message).tag = "[unexpected error]"
    /\ spc = "closing"

(***************************************************************************)
(* C34.  main's loop takes the timeout outcome (success false, the timeout *)
(* diagnostic, loop left) only in a run whose deadline check fired.        *)
(***************************************************************************)
\* main's loop has taken its timeout branch
TimeoutOutcome ==
    /\ res.success = FALSE
    /\ res.loop = "broken"
    /\ Mentions(res.err_message, "[TIMEOUT] Execution exceeded")

\* C34: the timeout outcome is only reached in a run in which the polling
\* loop found the deadline exceeded; no line of the child produces it.
C34_TimeoutOnlyFromDeadline == TimeoutOutcome => timed_out

(***************************************************************************)
(* C35.  process.kill() is only called after process.terminate() has been  *)
(* called in the same run, by the reader or by the polling loop.           *)
(***************************************************************************)
\* C35: whenever a kill has been issued, a graceful termination request has
\* been issued before it.
C35_KillOnlyAfterTerminate == killBy # {} => termBy # {}

(***************************************************************************)
(* main's loop fed with the events that the dispatch on the top-level type *)
(* tells apart, among them one whose type contains both "fail" and         *)
(* "error".                                                                *)
(***************************************************************************)
TypeLines ==
    {ThreadStarted("T1"), AgentMessage("agent_message a", <<"a">>), TurnCompleted,
     TurnFailed, ErrorEvent, Reconnecting, FailedError}

NextTypes ==
    \/ \E l \in TypeLines : Feed(l)
    \/ FeedEnd
    \/ \E ra \in BOOLEAN : Finish(ra)

SpecTypes == InitClassify /\ [][NextTypes]_vars

(***************************************************************************)
(* C36.  The two copies of the script classify alike.                      *)
(***************************************************************************)
\* what copy c makes of the lines s: its accumulators after the loop and
\* the closing checks
Outcome(c, s, timeout) ==
    LET r == ClosingChecks(RunLoop(c, InitRes, s, timeout))
    IN  [success |-> r.success, thread_id |-> r.thread_id,
         agent_messages |-> r.agent_messages, err_message |-> r.err_message]

\* C36: on the lines delivered so far, the copy under src/my and the copy
\* under src/skills end with the same success value, session id, agent text
\* and error log.
C36_CopiesClassifyAlike ==
    Outcome("my", delivered, args.timeout) = Outcome("skills", delivered, args.timeout)

(***************************************************************************)
(* C37.  A result with success = false carries a non-empty error string.   *)
(***************************************************************************)
\* C37: whenever success is false the error log holds a diagnostic, in
\* main's accumulators after every step and in the printed result.
C37_FailureHasDiagnostic ==
    /\ res.success = FALSE => res.err_message # <<>>
    /\ (result.printed /\ result.out.success = FALSE) => result.out.error # <<>>

\* a run that delivered a session id and nothing else: the closing check on
\* the agent text fails the run and writes the only diagnostic
C37_Witness ==
    /\ result.printed
    /\ delivered = <<ThreadStarted("T1")>>
    /\ result.out.success = FALSE
    /\ result.out.error = <<Piece("Failed to get agent_messages", <<>>)>>

====
